---- MODULE Spec2Model ----
(***************************************************************************)
(* Model of simple-endpoint-monitor-cli (src/main.py): main() reads the    *)
(* endpoint list, submits one check_endpoint call per url to a             *)
(* ThreadPoolExecutor, appends the results as the futures complete, and    *)
(* renders a table.                                                        *)
(*                                                                         *)
(* Optional Python values are tuples: <<>> is None, <<v>> is the value v.  *)
(* Times are integers: the network call takes a whole number of            *)
(* milliseconds, round(seconds, 2) yields hundredths of a second.          *)
(***************************************************************************)
EXTENDS Integers, Sequences, FiniteSets, TLC

\* ---------------------------------------------------------------- bounds
MaxUrls == 3
MaxWorkers == 2

TimeoutValues == {0, 1}

\* ------------------------------------------------------------ Python None
None == <<>>
Some(v) == <<v>>
Val(o) == o[1]

\* ------------------------------------------------- exceptions of requests
\* requests.exceptions.Timeout and its subclasses
TimeoutClasses == {"ReadTimeout"}
\* requests.exceptions.RequestException and its subclasses
RequestExceptionClasses == TimeoutClasses \cup {"ConnectionError"}
\* what requests.get raises that is no RequestException: the ValueError of
\* a timeout <= 0, the OSError of an unusable CA bundle
OtherExceptionClasses == {"ValueError", "OSError"}
ExceptionClasses == RequestExceptionClasses \cup OtherExceptionClasses

IsTimeout(exc) == exc \in TimeoutClasses
IsRequestException(exc) == exc \in RequestExceptionClasses

\* The outcomes of requests.get(url, timeout=timeout): a response with its
\* status code, ms milliseconds after the start, or an exception.  The
\* timeout bounds each socket operation, not the whole exchange, so a
\* response may arrive after more than timeout seconds.  A timeout <= 0 is
\* rejected with a ValueError before anything is sent.
Response(code, ms) == [kind |-> "response", status_code |-> code, ms |-> ms, exc |-> ""]
Raise(exc) == [kind |-> "raise", status_code |-> 0, ms |-> 0, exc |-> exc]

\* the servers of the model: a answers 200 within 4 ms, b answers 404 within
\* 104 ms, unless the exchange takes 6 ms more than the timeout
StatusOf(url) == IF url = "a" THEN 200 ELSE 404
DelayOf(url) == IF url = "a" THEN 4 ELSE 104

RequestsGet(url, timeout) ==
    IF timeout <= 0
    THEN {Raise("ValueError")}
    ELSE {Response(StatusOf(url), DelayOf(url)),
          Response(StatusOf(url), timeout * 1000 + 6)}
         \cup {Raise(e) : e \in ExceptionClasses \ {"ValueError"}}

\* round(seconds, 2), from milliseconds to hundredths of a second (no
\* modelled duration lies exactly between two hundredths)
Round2(ms) == (ms + 5) \div 10

\* variants of the comparison of line 27
ResultOf_AlwaysUp(elapsed, timeout) == "UP"
ResultOf_Slow(elapsed, timeout) == IF elapsed <= timeout * 100 THEN "UP" ELSE "SLOW"

\* "UP" if elapsed <= timeout else "TIMEOUT"   (elapsed in hundredths)
ResultOf(elapsed, timeout) == IF elapsed <= timeout * 100 THEN "UP" ELSE "TIMEOUT"

\* f"DOWN ({e.__class__.__name__})"
DownResult(exc) == "DOWN (" \o exc \o ")"

Returned(rec) == [ret |-> Some(rec), exc |-> None]
Raised(exc) == [ret |-> None, exc |-> Some(exc)]

\* variants of check_endpoint: the handler of Timeout keeps the deadline as
\* the elapsed time; the handler of RequestException keeps a status
check_endpoint_TimeoutTimed(url, timeout, net) ==
    IF net.kind = "response"
    THEN LET elapsed == Round2(net.ms)
         IN  Returned([url |-> url, status |-> Some(net.status_code),
                       time |-> Some(elapsed),
                       result |-> ResultOf(elapsed, timeout)])
    ELSE IF IsTimeout(net.exc)
    THEN Returned([url |-> url, status |-> None, time |-> Some(timeout * 100),
                   result |-> "TIMEOUT"])
    ELSE IF IsRequestException(net.exc)
    THEN Returned([url |-> url, status |-> None, time |-> None,
                   result |-> DownResult(net.exc)])
    ELSE Raised(net.exc)

check_endpoint_DownStatus(url, timeout, net) ==
    IF net.kind = "response"
    THEN LET elapsed == Round2(net.ms)
         IN  Returned([url |-> url, status |-> Some(net.status_code),
                       time |-> Some(elapsed),
                       result |-> ResultOf(elapsed, timeout)])
    ELSE IF IsTimeout(net.exc)
    THEN Returned([url |-> url, status |-> None, time |-> None, result |-> "TIMEOUT"])
    ELSE IF IsRequestException(net.exc)
    THEN Returned([url |-> url, status |-> Some(0), time |-> None,
                   result |-> DownResult(net.exc)])
    ELSE Raised(net.exc)

\* check_endpoint(url, timeout), given what requests.get does: either the
\* dictionary it returns or the exception that leaves it
check_endpoint(url, timeout, net) ==
    IF net.kind = "response"
    THEN LET elapsed == Round2(net.ms)
         IN  Returned([url |-> url, status |-> Some(net.status_code),
                       time |-> Some(elapsed),
                       result |-> ResultOf(elapsed, timeout)])
    ELSE IF IsTimeout(net.exc)
    THEN Returned([url |-> url, status |-> None, time |-> None, result |-> "TIMEOUT"])
    ELSE IF IsRequestException(net.exc)
    THEN Returned([url |-> url, status |-> None, time |-> None,
                   result |-> DownResult(net.exc)])
    ELSE Raised(net.exc)

\* --------------------------------------------------------------- the state
VARIABLES
    fileExists,     \* os.path.exists(URL_FILE)
    urls,           \* the endpoints read from URL_FILE
    TIMEOUT,        \* int(os.getenv("TIMEOUT", 30))
    MAX_WORKERS,    \* int(os.getenv("MAX_WORKERS", 10))
    pc,             \* where main() is
    futures,        \* the futures of future_to_url, in submission order
    work_queue,     \* the executor's queue of submitted, not yet started calls
    threads,        \* number of worker threads the executor has started
    got,            \* what requests.get did in each call that has ended
    yielded,        \* the futures as_completed has yielded
    results,        \* the list results
    raised,         \* the exception that left the with block, if any
    table_data,     \* the rows handed to tabulate
    printed         \* what main() has printed

vars == <<fileExists, urls, TIMEOUT, MAX_WORKERS, pc, futures, work_queue,
          threads, got, yielded, results, raised, table_data, printed>>

\* the endpoint files of the model: the first n lines of a, a, b, a, a, b, ...
UrlAt(k) == IF k % 3 = 0 THEN "b" ELSE "a"
UrlFiles == {[k \in 1..n |-> UrlAt(k)] : n \in 0..MaxUrls}

Future(state, outcome) == [state |-> state, outcome |-> outcome]
NoOutcome == [ret |-> None, exc |-> None]

Running == {i \in 1..Len(futures) : futures[i].state = "RUNNING"}
Finished == {i \in 1..Len(futures) : futures[i].state = "FINISHED"}

Init ==
    /\ fileExists \in BOOLEAN
    /\ urls \in (IF fileExists THEN UrlFiles ELSE {<<>>})
    /\ TIMEOUT \in TimeoutValues
    /\ MAX_WORKERS \in 1..MaxWorkers
    /\ pc = "start"
    /\ futures = <<>>
    /\ work_queue = <<>>
    /\ threads = 0
    /\ got = <<>>
    /\ yielded = {}
    /\ results = <<>>
    /\ raised = None
    /\ table_data = <<>>
    /\ printed = <<>>

\* variant: the message is printed and the run goes on with no endpoint
FileNotFound_NoReturn ==
    /\ pc = "start"
    /\ ~fileExists
    /\ printed' = Append(printed, "not found")
    /\ pc' = "pool"
    /\ UNCHANGED <<fileExists, urls, TIMEOUT, MAX_WORKERS, futures, work_queue,
                   threads, got, yielded, results, raised, table_data>>

\* main(), lines 35-37: the file is missing, print the message and return
FileNotFound ==
    /\ pc = "start"
    /\ ~fileExists
    /\ printed' = Append(printed, "not found")
    /\ pc' = "returned"
    /\ UNCHANGED <<fileExists, urls, TIMEOUT, MAX_WORKERS, futures, work_queue,
                   threads, got, yielded, results, raised, table_data>>

\* variant: the pool starts all its threads when it is made
InitialThreads_Eager(max_workers) == max_workers

\* ThreadPoolExecutor(max_workers=...) starts no thread; submit starts them
InitialThreads(max_workers) == 0

\* main(), lines 39-49: read the urls, print the heading, results = [], enter
\* the with block
OpenPool ==
    /\ pc = "start"
    /\ fileExists
    /\ printed' = Append(printed, "checking")
    /\ results' = <<>>
    /\ threads' = InitialThreads(MAX_WORKERS)
    /\ pc' = "pool"
    /\ UNCHANGED <<fileExists, urls, TIMEOUT, MAX_WORKERS, futures, work_queue,
                   got, yielded, raised, table_data>>

\* the workers that run no call and have no submitted call waiting for them
IdleWorkers == threads - Cardinality(Running) - Len(work_queue)

\* variant: a thread for every submitted call that finds no idle worker
AdjustThreadCount_NoLimit(n, idleCount, max_workers) ==
    IF idleCount > 0 THEN n ELSE n + 1

\* the executor starts a thread for a submitted call unless a worker is
\* idle or max_workers threads exist
AdjustThreadCount(n, idleCount, max_workers) ==
    IF idleCount > 0 THEN n
    ELSE IF n < max_workers THEN n + 1 ELSE n

\* line 50: executor.submit(check_endpoint, url, TIMEOUT) for the next url
Submit ==
    /\ pc = "pool"
    /\ Len(futures) < Len(urls)
    /\ futures' = Append(futures, Future("PENDING", NoOutcome))
    /\ work_queue' = Append(work_queue, Len(futures) + 1)
    /\ threads' = AdjustThreadCount(threads, IdleWorkers, MAX_WORKERS)
    /\ got' = Append(got, None)
    /\ UNCHANGED <<fileExists, urls, TIMEOUT, MAX_WORKERS, pc, yielded, results,
                   raised, table_data, printed>>

\* variant: the workers take no further call once a call has failed
WorkerFree_StopOnFailure(n, running) ==
    /\ running < n
    /\ \A i \in Finished :
          futures[i].outcome.ret # None /\ Val(futures[i].outcome.ret).result = "UP"

\* a worker thread that runs no call may take the next one
WorkerFree(n, running) == running < n

\* a worker takes the oldest submitted call and enters check_endpoint
WorkerStart ==
    /\ work_queue # <<>>
    /\ WorkerFree(threads, Cardinality(Running))
    /\ LET i == Head(work_queue)
       IN  futures' = [futures EXCEPT ![i].state = "RUNNING"]
    /\ work_queue' = Tail(work_queue)
    /\ UNCHANGED <<fileExists, urls, TIMEOUT, MAX_WORKERS, pc, threads,
                   got, yielded, results, raised, table_data, printed>>

\* requests.get ends, check_endpoint returns or raises, the worker stores
\* the outcome in the future
WorkerFinish(i) ==
    /\ i \in Running
    /\ \E net \in RequestsGet(urls[i], TIMEOUT) :
          /\ futures' = [futures EXCEPT
                            ![i] = Future("FINISHED", check_endpoint(urls[i], TIMEOUT, net))]
          /\ got' = [got EXCEPT ![i] = Some(net)]
    /\ UNCHANGED <<fileExists, urls, TIMEOUT, MAX_WORKERS, pc, work_queue, threads,
                   yielded, results, raised, table_data, printed>>

\* as_completed(future_to_url) may yield a finished future it has not
\* yielded yet
MayYield(i) == i \in Finished /\ i \notin yielded

\* variant: the loop ends one future early
AsCompletedDone_Early == Cardinality(yielded) >= Len(futures) - 1

\* as_completed(future_to_url) is exhausted: every future was yielded
AsCompletedDone == yielded = 1..Len(futures)

\* variant: the list is made anew from the result
AppendResult_Replace(rs, res) == <<res>>

\* line 52: results.append(...)
AppendResult(rs, res) == Append(rs, res)

\* lines 51-52: the next completed future; results.append(future.result()),
\* where future.result() raises the exception the call raised
Collect(i) ==
    /\ pc = "pool"
    /\ Len(futures) = Len(urls)
    /\ MayYield(i)
    /\ yielded' = yielded \cup {i}
    /\ IF futures[i].outcome.exc = None
       THEN /\ results' = AppendResult(results, Val(futures[i].outcome.ret))
            /\ UNCHANGED <<pc, raised>>
       ELSE /\ raised' = futures[i].outcome.exc
            /\ pc' = "shutdown"
            /\ UNCHANGED results
    /\ UNCHANGED <<fileExists, urls, TIMEOUT, MAX_WORKERS, futures, work_queue,
                   threads, got, table_data, printed>>

\* line 51: the for loop ends
LoopEnd ==
    /\ pc = "pool"
    /\ Len(futures) = Len(urls)
    /\ AsCompletedDone
    /\ pc' = "shutdown"
    /\ UNCHANGED <<fileExists, urls, TIMEOUT, MAX_WORKERS, futures, work_queue,
                   threads, got, yielded, results, raised, table_data, printed>>

\* executor.shutdown(wait=True) returns when every submitted call has run
PoolDrained == work_queue = <<>> /\ Running = {}

\* line 49, leaving the with block: wait for the pool; a pending exception
\* then leaves main()
Shutdown ==
    /\ pc = "shutdown"
    /\ PoolDrained
    /\ pc' = IF raised = None THEN "render" ELSE "crashed"
    /\ UNCHANGED <<fileExists, urls, TIMEOUT, MAX_WORKERS, futures, work_queue,
                   threads, got, yielded, results, raised, table_data, printed>>

\* Python truth of an optional number: None and 0 are false
Truthy(o) == o # None /\ Val(o) # 0

\* the cells of the table: "-", a status code, f"{time}s"
Placeholder == [text |-> "-"]
StatusCell(code) == [number |-> code]
TimeCell(elapsed) == [seconds |-> elapsed]

\* lines 57-62: the row of one result
Row(res) ==
    <<res.url, res.result,
      IF Truthy(res.status) THEN StatusCell(Val(res.status)) ELSE Placeholder,
      IF Truthy(res.time) THEN TimeCell(Val(res.time)) ELSE Placeholder>>

\* lines 55-65: build table_data and print the table
Render ==
    /\ pc = "render"
    /\ table_data' = [k \in 1..Len(results) |-> Row(results[k])]
    /\ printed' = Append(printed, "table")
    /\ pc' = "returned"
    /\ UNCHANGED <<fileExists, urls, TIMEOUT, MAX_WORKERS, futures, work_queue,
                   threads, got, yielded, results, raised>>

Next ==
    \/ FileNotFound
    \/ OpenPool
    \/ Submit
    \/ WorkerStart
    \/ \E i \in 1..MaxUrls + 1 : WorkerFinish(i)
    \/ \E i \in 1..MaxUrls + 1 : Collect(i)
    \/ LoopEnd
    \/ Shutdown
    \/ Render

Spec == Init /\ [][Next]_vars

\* the scheduler keeps running some thread that can take a step, and no
\* call of requests.get lasts for ever (it ends by the timeout at the latest)
LiveSpec == Spec /\ WF_vars(Next)

\* ------------------------------------------- the outcome record, as fields
\* classification: the result string up to the parenthesis of line 32
Classification(res) ==
    IF \E e \in ExceptionClasses : res.result = DownResult(e) THEN "DOWN" ELSE res.result

\* error_detail: the class name between the parentheses of line 32
ErrorDetail(res) ==
    IF \E e \in ExceptionClasses : res.result = DownResult(e)
    THEN Some(CHOOSE e \in ExceptionClasses : res.result = DownResult(e))
    ELSE None

\* the calls that have ended by returning a dictionary, and the ones that
\* have ended by raising
ReturnedCalls == {i \in Finished : futures[i].outcome.ret # None}
RaisedCalls == {i \in Finished : futures[i].outcome.exc # None}
Outcome(i) == Val(futures[i].outcome.ret)

\* main() has ended, by returning or by an exception
RunEnded == pc \in {"returned", "crashed"}

\* ------------------------------------------------------------------ claims

\* C1: when the run ends, results holds exactly one outcome per endpoint of
\* the input list.
C1_RunEndsWithAllOutcomes ==
    (RunEnded /\ fileExists) => Len(results) = Len(urls)

\* C2: the number of calls of check_endpoint that are executing never
\* exceeds MAX_WORKERS.
C2_BoundedConcurrency == Cardinality(Running) <= MAX_WORKERS

C2_Witness ==
    /\ MAX_WORKERS >= 2
    /\ Cardinality(Running) = MAX_WORKERS
    /\ work_queue # <<>>

\* C3: a fault that leaves a call of check_endpoint is recorded as a DOWN
\* outcome of that endpoint, and the run still returns the complete results.
C3_LeakedFaultIsDown ==
    (RunEnded /\ RaisedCalls # {}) =>
        /\ pc = "returned"
        /\ Len(results) = Len(urls)
        /\ \A i \in RaisedCalls :
              \E k \in 1..Len(results) :
                  results[k].url = urls[i] /\ Classification(results[k]) = "DOWN"

\* C4: check_endpoint never raises: every call that has ended has returned
\* an outcome record.
C4_ProbeNeverRaises == \A i \in Finished : futures[i].outcome.exc = None

\* C5 as stated: every TIMEOUT outcome carries neither http_status nor
\* elapsed nor error_detail.
C5_TimeoutCarriesNothing ==
    \A i \in ReturnedCalls :
        Classification(Outcome(i)) = "TIMEOUT" =>
            /\ Outcome(i).status = None
            /\ Outcome(i).time = None
            /\ ErrorDetail(Outcome(i)) = None

\* C5 as amended: no TIMEOUT outcome carries error_detail; the TIMEOUT
\* outcome of a timeout exception carries neither http_status nor elapsed;
\* the TIMEOUT outcome of a received response carries the status code of the
\* response and the elapsed time, which exceeds the timeout.
C5_TimeoutFields ==
    \A i \in ReturnedCalls :
        Classification(Outcome(i)) = "TIMEOUT" =>
            /\ ErrorDetail(Outcome(i)) = None
            /\ Val(got[i]).kind = "raise" =>
                  /\ IsTimeout(Val(got[i]).exc)
                  /\ Outcome(i).status = None
                  /\ Outcome(i).time = None
            /\ Val(got[i]).kind = "response" =>
                  /\ Outcome(i).status = Some(Val(got[i]).status_code)
                  /\ Outcome(i).time # None
                  /\ Val(Outcome(i).time) > TIMEOUT * 100

C5_Witness ==
    /\ \E i \in ReturnedCalls :
          Classification(Outcome(i)) = "TIMEOUT" /\ Val(got[i]).kind = "raise"
    /\ \E i \in ReturnedCalls :
          Classification(Outcome(i)) = "TIMEOUT" /\ Val(got[i]).kind = "response"

\* C6 as stated: whenever requests.get returns a response, the outcome is UP
\* with the status code of the response and the elapsed time.
C6_ResponseIsUp ==
    \A i \in Finished :
        Val(got[i]).kind = "response" =>
            /\ i \in ReturnedCalls
            /\ Outcome(i).result = "UP"
            /\ Outcome(i).status = Some(Val(got[i]).status_code)
            /\ Outcome(i).time = Some(Round2(Val(got[i]).ms))

\* C6 as amended: whenever requests.get returns a response, the outcome
\* carries the status code of the response and the elapsed time rounded to
\* hundredths of a second; it is UP when that elapsed time is at most the
\* timeout and TIMEOUT when it is more.
C6_ResponseUpOrTimeout ==
    \A i \in Finished :
        Val(got[i]).kind = "response" =>
            /\ i \in ReturnedCalls
            /\ Outcome(i).status = Some(Val(got[i]).status_code)
            /\ Outcome(i).time = Some(Round2(Val(got[i]).ms))
            /\ Round2(Val(got[i]).ms) <= TIMEOUT * 100 => Outcome(i).result = "UP"
            /\ Round2(Val(got[i]).ms) > TIMEOUT * 100 => Outcome(i).result = "TIMEOUT"

C6_Witness ==
    /\ \E i \in ReturnedCalls :
          Val(got[i]).kind = "response" /\ Outcome(i).result = "UP"
    /\ \E i \in ReturnedCalls :
          /\ Val(got[i]).kind = "response"
          /\ Val(got[i]).ms > TIMEOUT * 1000
          /\ Outcome(i).result = "TIMEOUT"

\* C7: the classification of every outcome in results is one of UP, TIMEOUT
\* and DOWN.
C7_ThreeClassifications ==
    \A k \in 1..Len(results) : Classification(results[k]) \in {"UP", "TIMEOUT", "DOWN"}

C7_Witness ==
    {Classification(results[k]) : k \in 1..Len(results)} = {"UP", "TIMEOUT", "DOWN"}

\* C8: an UP outcome has http_status and elapsed and no error_detail; a DOWN
\* outcome has error_detail and neither http_status nor elapsed; so every
\* outcome that is not TIMEOUT has exactly one of http_status, error_detail.
C8_UpAndDownFields ==
    \A i \in ReturnedCalls :
        /\ Classification(Outcome(i)) = "UP" =>
              /\ Outcome(i).status # None
              /\ Outcome(i).time # None
              /\ ErrorDetail(Outcome(i)) = None
        /\ Classification(Outcome(i)) = "DOWN" =>
              /\ ErrorDetail(Outcome(i)) # None
              /\ Val(ErrorDetail(Outcome(i))) = Val(got[i]).exc
              /\ Outcome(i).status = None
              /\ Outcome(i).time = None
        /\ Classification(Outcome(i)) # "TIMEOUT" =>
              (Outcome(i).status # None) # (ErrorDetail(Outcome(i)) # None)

C8_Witness ==
    /\ \E i \in ReturnedCalls : Classification(Outcome(i)) = "UP"
    /\ \E i \in ReturnedCalls : Classification(Outcome(i)) = "DOWN"

\* C9: when every thread is scheduled fairly and every call of requests.get
\* ends, every submitted call is eventually started and ends, and main()
\* eventually ends; unless a call raised, main() ends with one outcome per
\* endpoint in results, whatever the outcomes are, DOWN and TIMEOUT included.
C9_RunCompletes ==
    <>( /\ RunEnded
        /\ fileExists => Finished = 1..Len(urls)
        /\ (fileExists /\ RaisedCalls = {}) =>
              /\ pc = "returned"
              /\ Len(results) = Len(urls)
              /\ table_data # <<>> \/ urls = <<>> )

C9_Witness ==
    /\ pc = "returned"
    /\ Len(urls) >= 2
    /\ Len(results) = Len(urls)
    /\ Classification(results[1]) \in {"DOWN", "TIMEOUT"}

\* C10: rendering starts only after every submitted call has ended and its
\* outcome is in results.
RenderingStarted == pc = "render" \/ table_data # <<>>

C10_RenderAfterAll ==
    RenderingStarted =>
        /\ Len(futures) = Len(urls)
        /\ Finished = 1..Len(urls)
        /\ Len(results) = Len(urls)

C10_Witness == pc = "render" /\ Len(urls) >= 2

\* the number of entries of the list seq whose field url is e, and the
\* number of lines e of the endpoint list
OutcomesFor(seq, e) == Cardinality({k \in 1..Len(seq) : seq[k].url = e})
Occurrences(e) == Cardinality({i \in 1..Len(urls) : urls[i] = e})

\* C11: when the run has ended, results holds for every endpoint as many
\* outcomes as the endpoint has lines in the input list.
C11_OutcomePerOccurrence ==
    (RunEnded /\ fileExists) =>
        \A e \in {urls[i] : i \in 1..Len(urls)} :
            OutcomesFor(results, e) = Occurrences(e)

\* the entries of results equal to the record r, and the calls of the set
\* calls that returned the record r
EntriesOf(r) == {k \in 1..Len(results) : results[k] = r}
CallsReturning(calls, r) == {i \in calls \cap ReturnedCalls : Outcome(i) = r}

\* C12: no outcome is duplicated, overwritten or lost: results never holds
\* more or other entries than the calls collected so far have returned, and
\* when the run has ended every call that returned an outcome has exactly
\* one entry.
C12_OneEntryPerCompletion ==
    /\ \A k \in 1..Len(results) :
          Cardinality(EntriesOf(results[k])) = Cardinality(CallsReturning(yielded, results[k]))
    /\ RunEnded =>
          \A i \in ReturnedCalls :
              Cardinality(EntriesOf(Outcome(i))) = Cardinality(CallsReturning(Finished, Outcome(i)))

\* C13: when the endpoint list is empty, results stays empty, no call is
\* submitted or started and the pool starts no thread.
C13_EmptyInput ==
    (fileExists /\ urls = <<>>) =>
        /\ results = <<>>
        /\ futures = <<>>
        /\ work_queue = <<>>
        /\ threads = 0

C13_Witness ==
    /\ fileExists
    /\ urls = <<>>
    /\ pc = "returned"
    /\ printed = <<"checking", "table">>

\* C14: when the endpoint file is missing, no call is ever submitted, no
\* outcome is recorded and no table is rendered: the run prints the message
\* and returns.
C14_MissingSource ==
    ~fileExists =>
        /\ pc \in {"start", "returned"}
        /\ futures = <<>>
        /\ threads = 0
        /\ results = <<>>
        /\ table_data = <<>>
        /\ \A k \in 1..Len(printed) : printed[k] = "not found"

C14_Witness == ~fileExists /\ pc = "returned" /\ printed = <<"not found">>

\* the steps of one submitted call: it waits in the queue (DISPATCHED), it
\* is taken by a worker (RUNNING), it ends with an outcome record
Dispatched(f) == f.state = "PENDING"
Executing(f) == f.state = "RUNNING"
Terminal(f) ==
    /\ f.state = "FINISHED"
    /\ f.outcome.ret # None
    /\ Classification(Val(f.outcome.ret)) \in {"UP", "TIMEOUT", "DOWN"}

\* C15: every submitted call goes from DISPATCHED to RUNNING to one of UP,
\* TIMEOUT, DOWN and takes no other step: a terminal state is never left, no
\* call is dispatched or executed again.
C15_ProbeStateMachine ==
    [][\A i \in 1..Len(futures) :
          \/ futures'[i] = futures[i]
          \/ Dispatched(futures[i]) /\ Executing(futures'[i])
          \/ Executing(futures[i]) /\ Terminal(futures'[i])]_vars

Started(i) == ~Dispatched(futures[i])

\* C17: the calls start in the order of submission; with MAX_WORKERS = 1
\* they run one at a time in the order of the input, and for the input
\* a, a, b the run ends with three outcomes.
C17_FifoStart ==
    /\ \A i, j \in 1..Len(futures) : (i < j /\ Started(j)) => Started(i)
    /\ MAX_WORKERS = 1 =>
          /\ Cardinality(Running) <= 1
          /\ \A i, j \in 1..Len(futures) : (i < j /\ Started(j)) => i \in Finished
    /\ (MAX_WORKERS = 1 /\ urls = <<"a", "a", "b">> /\ RunEnded) => Len(results) = 3

\* the table has been printed
TableRendered == \E k \in 1..Len(printed) : printed[k] = "table"

\* C18: the table has one row per outcome, with the endpoint and the result;
\* the row shows the status code and the elapsed time of the outcome when
\* the outcome has them, an elapsed time of 0.00 s included, and the
\* placeholder only when the outcome has none.
C18_RowsShowPresentFields ==
    TableRendered =>
        /\ Len(table_data) = Len(results)
        /\ \A k \in 1..Len(results) :
              /\ table_data[k][1] = results[k].url
              /\ table_data[k][2] = results[k].result
              /\ table_data[k][3] = IF results[k].status = None THEN Placeholder
                                    ELSE StatusCell(Val(results[k].status))
              /\ table_data[k][4] = IF results[k].time = None THEN Placeholder
                                    ELSE TimeCell(Val(results[k].time))

====
